---------------------------- MODULE Spec2Model ----------------------------
(***************************************************************************)
(* A model of the pixelflut server (pixeldike): the sharded canvas store   *)
(* (rust/src/pixmap.rs) under concurrent get_pixel/set_pixel calls, the    *)
(* stream connection handler (rust/src/net/tcp_server.rs) with the frame   *)
(* dispatch of rust/src/net/mod.rs, the listener with its connections,     *)
(* the datagram server (rust/src/net/udp_server.rs), and the legacy        *)
(* thread-based server (src/tcp_server.rs).                                *)
(*                                                                         *)
(* Indices are 0-based as in the source: a Vec is a function over 0..n-1.  *)
(* usize arithmetic is modelled on the naturals: every product             *)
(* width * height that occurs within the bounds is far below usize::MAX.   *)
(***************************************************************************)
EXTENDS Naturals, Sequences, FiniteSets, TLC

\* ------------------------------------------------------------------ bounds
\* SpecNew: the arguments Pixmap::new is tried with are 0..MaxDim (width, height)
\* and 0..MaxShards (num_shards).
MaxDim == 4
MaxShards == 6
\* Spec: the canvases the threads work on are at most MaxWidth x MaxHeight.
MaxWidth == 2
MaxHeight == 2
\* Threads calling get_pixel/set_pixel concurrently.
NumThreads == 2
\* SpecTcp: the tokens the peer of the stream connection sends in all.
MaxSent == 5
\* SpecSrv: the connections the listener accepts in all.
MaxConns == 2
\* SpecUdp: the datagrams the peers send in all.
MaxDatagrams == 3
\* SpecLegacy: the clients the legacy server accepts, and the chunks of
\* bytes the clients write in all.
MaxLegacyClients == 2
MaxLegacySent == 3

VARIABLES
    args,       \* the arguments Pixmap::new is called with
    pixmap,     \* the result of Pixmap::new; the shards' contents live in .data
    mutex,      \* per shard: the thread holding its Mutex (0: unlocked)
    poisoned,   \* per shard: whether a thread panicked while holding its Mutex
    thr,        \* per thread: where it is inside get_pixel / set_pixel
    lastSet,    \* history: per coordinate, the color of the last completed set_pixel
    wire,       \* stream: bytes the peer sent that the server has not read yet
    peer_closed,\* stream: the peer has closed its sending side
    conn,       \* stream: the TcpConnection and where process_connection stands
    out,        \* stream: bytes written and flushed to the socket
    rcvd,       \* history: every byte read_buf has delivered so far
    dispatched, \* history: the frames handed to handle_frame, with their responses
    listener,   \* server: where the accept loop of tcp_server::start stands
    conns,      \* server: per accepted connection, its process_connection task
    last,       \* history: the request served last, and what it was served on
    udp,        \* datagrams: where the receive loop of udp_server::start stands
    inflight,   \* datagrams: sent by a peer and not received yet
    tasks,      \* datagrams: the spawned process_received tasks
    sent,       \* datagrams: every send_to that was attempted
    lclients,   \* legacy: per client, its stream and its handle_client thread
    lchan,      \* legacy: the mpsc channel from the clients to the input handler
    lhandler,   \* legacy: the input-handler thread(s)
    lmap,       \* legacy: the pixel map cmd_px writes
    lhist       \* history: messages taken, executed and forwarded, in order

vars == <<args, pixmap, mutex, poisoned, thr, lastSet,
          wire, peer_closed, conn, out, rcvd, dispatched,
          listener, conns, last, udp, inflight, tasks, sent,
          lclients, lchan, lhandler, lmap, lhist>>

\* The state of the stream connection, and the state of the pixmap's callers.
connVars == <<wire, peer_closed, conn, out, rcvd, dispatched>>
callerVars == <<args, mutex, poisoned, thr, lastSet>>
\* The state of the listener with its connections, and of the datagram server.
srvVars == <<listener, conns, last>>
udpVars == <<udp, inflight, tasks, sent>>
\* The state of the legacy thread-based server.
legVars == <<lclients, lchan, lhandler, lmap, lhist>>

Threads == 1..NumThreads

\* ------------------------------------------------------------------ Color
Color(r, g, b) == <<r, g, b>>

\* impl From<u32> for Color: the three low bytes of the little-endian encoding.
ColorFromU32(src) == Color(src % 256, (src \div 256) % 256, (src \div 65536) % 256)

\* The colors the callers pass to set_pixel: one converted from a u32, as in
\* test_set_and_get_pixel, and the one of test_set_and_get_pixel_sharded.
InputColors == {ColorFromU32(197121), Color(42, 43, 44)}

\* ------------------------------------------------------------------ Pixmap
ErrWidth == "width is 0"
ErrHeight == "height is 0"
ErrShardsZero == "num_shards i 0"
ErrShardsTooMany == "num_shards requests more shards than there is data (num_shards >= width * height)"
ErrShardsUnequal == "num_shards would result in unequal shard sizes (width * height % num_shards != 0)"

\* Pixmap::new with the fourth test off by one (> for >=): one shard per pixel passes.
PixmapNew_OffByOne(width, height, num_shards) ==
    IF width = 0 THEN [tag |-> "Err", err |-> ErrWidth]
    ELSE IF height = 0 THEN [tag |-> "Err", err |-> ErrHeight]
    ELSE IF num_shards = 0 THEN [tag |-> "Err", err |-> ErrShardsZero]
    ELSE IF num_shards > width * height THEN [tag |-> "Err", err |-> ErrShardsTooMany]
    ELSE IF (width * height) % num_shards # 0 THEN [tag |-> "Err", err |-> ErrShardsUnequal]
    ELSE [tag |-> "Ok",
          data |-> [s \in 0..(num_shards - 1) |->
                       [k \in 0..(((width * height) \div num_shards) - 1) |-> ColorFromU32(0)]],
          width |-> width,
          height |-> height]

\* Pixmap::new
PixmapNew(width, height, num_shards) ==
    IF width = 0 THEN [tag |-> "Err", err |-> ErrWidth]
    ELSE IF height = 0 THEN [tag |-> "Err", err |-> ErrHeight]
    ELSE IF num_shards = 0 THEN [tag |-> "Err", err |-> ErrShardsZero]
    ELSE IF num_shards >= width * height THEN [tag |-> "Err", err |-> ErrShardsTooMany]
    ELSE IF (width * height) % num_shards # 0 THEN [tag |-> "Err", err |-> ErrShardsUnequal]
    ELSE LET size == width * height
             shard_size == size \div num_shards
         IN [tag |-> "Ok",
             data |-> [s \in 0..(num_shards - 1) |->
                          [k \in 0..(shard_size - 1) |-> ColorFromU32(0)]],
             width |-> width,
             height |-> height]

\* self.data.len()
NumShards(p) == Cardinality(DOMAIN p.data)

\* get_pixel_index with the row stride forgotten (global_i = y + x).
GetPixelIndex_NoStride(p, x, y) ==
    LET global_i == y + x
        shard_size == (p.width * p.height) \div NumShards(p)
        local_i == global_i % shard_size
        shard_num == (global_i - local_i) \div shard_size
    IN <<shard_num, local_i>>

\* Pixmap::get_pixel_index: <<shard_num, local_i>>
GetPixelIndex(p, x, y) ==
    LET global_i == y * p.width + x
        shard_size == (p.width * p.height) \div NumShards(p)
        local_i == global_i % shard_size
        shard_num == (global_i - local_i) \div shard_size
    IN <<shard_num, local_i>>

\* are_coordinates_inside with <= for <.
AreCoordinatesInside_Inclusive(p, x, y) == x <= p.width /\ y <= p.height

\* Pixmap::are_coordinates_inside
AreCoordinatesInside(p, x, y) == x < p.width /\ y < p.height

\* The coordinates of the canvas, and the ones callers try: one past each edge too.
Coords(p) == (0..(p.width - 1)) \X (0..(p.height - 1))
CallCoords(p) == (0..p.width) \X (0..p.height)

\* ------------------------------------------------------------ return values
NoRet == [kind |-> "none"]
RetNone == [kind |-> "None"]
RetSome(c) == [kind |-> "Some", color |-> c]
RetBool(b) == [kind |-> "bool", val |-> b]

Idle(ret) == [pc |-> "idle", x |-> 0, y |-> 0, color |-> Color(0, 0, 0),
              shard_index |-> 0, i |-> 0, chan |-> 0, ret |-> ret]
Panicked == [Idle(NoRet) EXCEPT !.pc = "panicked"]

\* ------------------------------------------------------------------- Init
\* The locks and the history of a freshly constructed pixmap: every Mutex
\* unlocked and unpoisoned, no set_pixel completed yet.
FreshMutex(p) == IF p.tag = "Ok" THEN [s \in DOMAIN p.data |-> 0] ELSE <<>>
FreshPoisoned(p) == IF p.tag = "Ok" THEN [s \in DOMAIN p.data |-> FALSE] ELSE <<>>
FreshLastSet(p) == IF p.tag = "Ok" THEN [c \in Coords(p) |-> <<0, 0, 0>>] ELSE <<>>

\* No stream connection has been accepted.
NoConnection ==
    /\ wire = <<>>
    /\ peer_closed = FALSE
    /\ conn = [pc |-> "none"]
    /\ out = <<>>
    /\ rcvd = <<>>
    /\ dispatched = <<>>

\* The legacy server has not been started.
NoLegacy ==
    /\ lclients = <<>>
    /\ lchan = <<>>
    /\ lhandler = <<>>
    /\ lmap = <<>>
    /\ lhist = <<>>

\* No listener and no datagram server has been started.
NoServer ==
    /\ listener = "none"
    /\ conns = <<>>
    /\ last = [kind |-> "none"]
    /\ udp = "none"
    /\ inflight = {}
    /\ tasks = <<>>
    /\ sent = <<>>
    /\ NoLegacy

\* ------------------------------------------------------------- shard locks
\* A lock() that never waits, and one that waits for every shard of the canvas.
LockFree_NoWait(s) == TRUE
LockFree_Global(s) == \A s2 \in DOMAIN mutex : mutex[s2] = 0

\* shard.lock() blocks until the Mutex is free.
LockFree(s) == mutex[s] = 0

\* A guard that is never dropped.
Unlock_Leak(s) == mutex

\* What leaving the critical section does to the Mutex: the guard is dropped.
Unlock(s) == [mutex EXCEPT ![s] = 0]

\* ---------------------------------------------------------------- get_pixel
GetPixelCall(t, x, y) ==
    /\ pixmap.tag = "Ok"
    /\ thr[t].pc = "idle"
    /\ thr' = [thr EXCEPT ![t] = [Idle(NoRet) EXCEPT !.pc = "get", !.x = x, !.y = y]]
    /\ UNCHANGED <<args, pixmap, mutex, poisoned, lastSet, connVars, srvVars, udpVars, legVars>>

\* The bounds check, the index computation, self.data.get(shard_index).unwrap()
\* and shard.lock().unwrap().
Enter(t, locked) ==
    LET me == thr[t]
        idx == GetPixelIndex(pixmap, me.x, me.y)
    IN IF idx[1] \notin DOMAIN pixmap.data
       THEN \* data.get(shard_index) is None: unwrap panics
            /\ thr' = [thr EXCEPT ![t] = Panicked]
            /\ UNCHANGED mutex
       ELSE /\ LockFree(idx[1])
            /\ IF poisoned[idx[1]]
               THEN \* lock() returns Err(PoisonError): unwrap panics
                    /\ thr' = [thr EXCEPT ![t] = Panicked]
                    /\ UNCHANGED mutex
               ELSE /\ thr' = [thr EXCEPT ![t] = [me EXCEPT !.pc = locked,
                                   !.shard_index = idx[1], !.i = idx[2], !.chan = 0]]
                    /\ mutex' = [mutex EXCEPT ![idx[1]] = t]

GetPixelEnter(t) ==
    /\ thr[t].pc = "get"
    /\ IF ~AreCoordinatesInside(pixmap, thr[t].x, thr[t].y)
       THEN /\ thr' = [thr EXCEPT ![t] = Idle(RetNone)]
            /\ UNCHANGED mutex
       ELSE Enter(t, "get_locked")
    /\ UNCHANGED <<args, pixmap, poisoned, lastSet, connVars, srvVars, udpVars, legVars>>

\* Some(lock.get(i).unwrap().clone()), and the guard dropped by the return.
GetPixelRead(t) ==
    LET me == thr[t]
        shard == pixmap.data[me.shard_index]
    IN /\ me.pc = "get_locked"
       /\ IF me.i \notin DOMAIN shard
          THEN /\ thr' = [thr EXCEPT ![t] = Panicked]
               /\ poisoned' = [poisoned EXCEPT ![me.shard_index] = TRUE]
          ELSE /\ thr' = [thr EXCEPT ![t] = Idle(RetSome(shard[me.i]))]
               /\ UNCHANGED poisoned
       /\ mutex' = Unlock(me.shard_index)
       /\ UNCHANGED <<args, pixmap, lastSet, connVars, srvVars, udpVars, legVars>>

\* ---------------------------------------------------------------- set_pixel
SetPixelCall(t, x, y, color) ==
    /\ pixmap.tag = "Ok"
    /\ thr[t].pc = "idle"
    /\ thr' = [thr EXCEPT ![t] = [Idle(NoRet) EXCEPT !.pc = "set", !.x = x, !.y = y,
                                                     !.color = color]]
    /\ UNCHANGED <<args, pixmap, mutex, poisoned, lastSet, connVars, srvVars, udpVars, legVars>>

SetPixelEnter(t) ==
    /\ thr[t].pc = "set"
    /\ IF ~AreCoordinatesInside(pixmap, thr[t].x, thr[t].y)
       THEN /\ thr' = [thr EXCEPT ![t] = Idle(RetBool(FALSE))]
            /\ UNCHANGED mutex
       ELSE Enter(t, "set_locked")
    /\ UNCHANGED <<args, pixmap, poisoned, lastSet, connVars, srvVars, udpVars, legVars>>

\* shard_data[i] = color: the three bytes of the Color are stored one after the
\* other (the store of a 3-byte struct is not one atomic store); after the
\* last one the guard is dropped and set_pixel returns true.
SetPixelWrite(t) ==
    LET me == thr[t]
        shard == pixmap.data[me.shard_index]
        ch == me.chan + 1
    IN /\ me.pc = "set_locked"
       /\ IF me.i \notin DOMAIN shard
          THEN /\ thr' = [thr EXCEPT ![t] = Panicked]
               /\ poisoned' = [poisoned EXCEPT ![me.shard_index] = TRUE]
               /\ mutex' = Unlock(me.shard_index)
               /\ UNCHANGED <<pixmap, lastSet>>
          ELSE /\ pixmap' = [pixmap EXCEPT !.data[me.shard_index][me.i][ch] = me.color[ch]]
               /\ UNCHANGED poisoned
               /\ IF ch < 3
                  THEN /\ thr' = [thr EXCEPT ![t].chan = ch]
                       /\ UNCHANGED <<mutex, lastSet>>
                  ELSE /\ thr' = [thr EXCEPT ![t] = Idle(RetBool(TRUE))]
                       /\ mutex' = Unlock(me.shard_index)
                       /\ lastSet' = [lastSet EXCEPT ![<<me.x, me.y>>] = me.color]
       /\ UNCHANGED <<args, connVars, srvVars, udpVars, legVars>>

\* ------------------------------------------- specification: construction
\* Pixmap::new applied to arguments drawn from 0..MaxDim and 0..MaxShards.
InitNew ==
    /\ args \in [width : 0..MaxDim, height : 0..MaxDim, num_shards : 0..MaxShards]
    /\ pixmap = [tag |-> "Uninit"]
    /\ mutex = <<>>
    /\ poisoned = <<>>
    /\ thr = [t \in Threads |-> Idle(NoRet)]
    /\ lastSet = <<>>
    /\ NoConnection
    /\ NoServer

New ==
    /\ pixmap.tag = "Uninit"
    /\ pixmap' = PixmapNew(args.width, args.height, args.num_shards)
    /\ mutex' = FreshMutex(pixmap')
    /\ poisoned' = FreshPoisoned(pixmap')
    /\ lastSet' = FreshLastSet(pixmap')
    /\ UNCHANGED <<args, thr, connVars, srvVars, udpVars, legVars>>

NextNew == New

SpecNew == InitNew /\ [][NextNew]_vars

\* ------------------------------------------------ specification: threads
\* A pixmap that Pixmap::new returned, shared by the threads (SharedPixmap).
Init ==
    /\ args \in [width : 0..MaxWidth, height : 0..MaxHeight, num_shards : 0..MaxShards]
    /\ pixmap = PixmapNew(args.width, args.height, args.num_shards)
    /\ pixmap.tag = "Ok"
    /\ mutex = FreshMutex(pixmap)
    /\ poisoned = FreshPoisoned(pixmap)
    /\ thr = [t \in Threads |-> Idle(NoRet)]
    /\ lastSet = FreshLastSet(pixmap)
    /\ NoConnection
    /\ NoServer

Step(t) ==
    \/ GetPixelEnter(t)
    \/ GetPixelRead(t)
    \/ SetPixelEnter(t)
    \/ SetPixelWrite(t)

Next ==
    \/ \E t \in Threads : \E c \in CallCoords(pixmap) : GetPixelCall(t, c[1], c[2])
    \/ \E t \in Threads : \E c \in CallCoords(pixmap) : \E color \in InputColors :
            SetPixelCall(t, c[1], c[2], color)
    \/ \E t \in Threads : Step(t)

Spec == Init /\ [][Next]_vars

\* ----------------------------------------------------------------- fairness
\* The same threads under fair scheduling: a thread that can take a step
\* eventually takes one, and a thread waiting in lock() gets the Mutex if it is
\* free again and again. The colors play no part in the locking, so the
\* callers here pass one color only.
NextFair ==
    \/ \E t \in Threads : \E c \in CallCoords(pixmap) : GetPixelCall(t, c[1], c[2])
    \/ \E t \in Threads : \E c \in CallCoords(pixmap) :
            SetPixelCall(t, c[1], c[2], Color(42, 43, 44))
    \/ \E t \in Threads : Step(t)

FairSpec == Init /\ [][NextFair]_vars /\ \A t \in Threads : SF_vars(Step(t))

\* ------------------------------------------------------------------ frames
\* A byte stream is a sequence of tokens: the words of a line and the line
\* delimiter. A message is the tokens of one line followed by the delimiter,
\* so a read can end in the middle of a message.
NL == "\n"

None == [some |-> FALSE]
Some(v) == [some |-> TRUE, val |-> v]

\* The position of the first delimiter of buf (0: there is none).
FirstNL(buf) ==
    IF \E k \in 1..Len(buf) : buf[k] = NL
    THEN CHOOSE k \in 1..Len(buf) : buf[k] = NL /\ \A j \in 1..(k - 1) : buf[j] # NL
    ELSE 0

\* Frame::check: Ok with the cursor behind the first complete message, or Err
\* when the buffer holds no complete message.
FrameCheck(buf) ==
    IF FirstNL(buf) = 0 THEN [ok |-> FALSE, position |-> 0]
    ELSE [ok |-> TRUE, position |-> FirstNL(buf)]

\* Frame::parse of a buffer that check accepted: the words of the first message.
FrameParse(buf) == SubSeq(buf, 1, FirstNL(buf) - 1)

\* Frame::new_from_string of an error's text, Frame::from(Response), and
\* Frame::encode: the words of the frame and the delimiter.
ErrorFrame(text) == <<"ERROR", text>>
ColorToken(c) == ToString(c)
ResponseFrame(r) ==
    CASE r.kind = "Size" -> <<"SIZE", ToString(r.width), ToString(r.height)>>
      [] r.kind = "Help" -> <<"HELP", r.topic>>
      [] r.kind = "Px" -> <<"PX", ToString(r.x), ToString(r.y), ColorToken(r.color)>>
      [] r.kind = "State" -> <<"STATE", r.algorithm, "snapshot">>
FrameEncode(frame) == Append(frame, NL)

\* The numbers and colors a request can carry.
NatTokens == {"0", "1", "2", "3"}
NatOf(tok) == CASE tok = "0" -> 0 [] tok = "1" -> 1 [] tok = "2" -> 2 [] tok = "3" -> 3
ColorTokens == {"2A2B2C", "010203"}
ColorOf(tok) == CASE tok = "2A2B2C" -> Color(42, 43, 44) [] tok = "010203" -> Color(1, 2, 3)
Algorithms == {"rgb64", "rgba64"}
\* The coordinates the requests of SpecSrv carry: two inside the canvas, one
\* with x and one with y outside.
ReqCoords == {<<"0", "0">>, <<"1", "1">>, <<"2", "0">>, <<"1", "2">>}

\* Request::try_from(frame): the request of a line of the wire grammar, or an error.
RequestTryFrom(frame) ==
    LET n == Len(frame)
        ok(r) == [ok |-> TRUE, request |-> r]
    IN IF frame = <<"SIZE">> THEN ok([kind |-> "Size"])
       ELSE IF frame = <<"HELP">> THEN ok([kind |-> "Help", topic |-> ""])
       ELSE IF n = 2 /\ frame[1] = "HELP" THEN ok([kind |-> "Help", topic |-> frame[2]])
       ELSE IF n = 3 /\ frame[1] = "PX" /\ frame[2] \in NatTokens /\ frame[3] \in NatTokens
            THEN ok([kind |-> "PxGet", x |-> NatOf(frame[2]), y |-> NatOf(frame[3])])
       ELSE IF n = 4 /\ frame[1] = "PX" /\ frame[2] \in NatTokens /\ frame[3] \in NatTokens
                     /\ frame[4] \in ColorTokens
            THEN ok([kind |-> "PxSet", x |-> NatOf(frame[2]), y |-> NatOf(frame[3]),
                     color |-> ColorOf(frame[4])])
       ELSE IF n = 2 /\ frame[1] = "STATE" /\ frame[2] \in Algorithms
            THEN ok([kind |-> "State", algorithm |-> frame[2]])
       ELSE IF frame = <<"SUBSCRIBE">> THEN ok([kind |-> "Subscribe"])
       ELSE IF frame = <<"UNSUBSCRIBE">> THEN ok([kind |-> "Unsubscribe"])
       ELSE [ok |-> FALSE, error |-> "unknown command"]

\* ------------------------------------------------------------ pixmap actor
\* The pixmap behind its actor: each message is handled in one piece.
ActorGetPixel(p, x, y) ==
    IF AreCoordinatesInside(p, x, y)
    THEN LET idx == GetPixelIndex(p, x, y) IN p.data[idx[1]][idx[2]]
    ELSE Color(0, 0, 0)

ActorSetPixel(p, x, y, color) ==
    IF AreCoordinatesInside(p, x, y)
    THEN LET idx == GetPixelIndex(p, x, y) IN [p EXCEPT !.data[idx[1]][idx[2]] = color]
    ELSE p

\* ----------------------------------------------------------- handle_request
\* Preferences that start out subscribed.
DefaultPreferences_Subscribed == [subscribed |-> TRUE]

\* impl Default for ConnectionPreferences
DefaultPreferences == [subscribed |-> FALSE]

\* handle_request that raises coordinates outside the canvas as an error.
HandleRequest_RangeChecked(request, p, prefs, collab_ok) ==
    LET res(response, p2, prefs2) ==
            [ok |-> TRUE, response |-> response, pixmap |-> p2, prefs |-> prefs2]
    IN IF ~collab_ok
       THEN [ok |-> FALSE, error |-> "internal error", pixmap |-> p, prefs |-> prefs]
       ELSE IF request.kind \in {"PxGet", "PxSet"}
               /\ ~AreCoordinatesInside(p, request.x, request.y)
       THEN [ok |-> FALSE, error |-> "invalid coordinates", pixmap |-> p, prefs |-> prefs]
       ELSE CASE request.kind = "Size" ->
                    res(Some([kind |-> "Size", width |-> p.width, height |-> p.height]), p, prefs)
              [] request.kind = "Help" ->
                    res(Some([kind |-> "Help", topic |-> request.topic]), p, prefs)
              [] request.kind = "PxGet" ->
                    res(Some([kind |-> "Px", x |-> request.x, y |-> request.y,
                              color |-> ActorGetPixel(p, request.x, request.y)]), p, prefs)
              [] request.kind = "PxSet" ->
                    res(None, ActorSetPixel(p, request.x, request.y, request.color), prefs)
              [] request.kind = "State" ->
                    res(Some([kind |-> "State", algorithm |-> request.algorithm]), p, prefs)
              [] request.kind = "Subscribe" ->
                    res(None, p, [prefs EXCEPT !.subscribed = TRUE])
              [] request.kind = "Unsubscribe" ->
                    res(None, p, [prefs EXCEPT !.subscribed = FALSE])

\* handle_request that answers a PxSet with the pixel it has set.
HandleRequest_AckSet(request, p, prefs, collab_ok) ==
    LET res(response, p2, prefs2) ==
            [ok |-> TRUE, response |-> response, pixmap |-> p2, prefs |-> prefs2]
    IN IF ~collab_ok
       THEN [ok |-> FALSE, error |-> "internal error", pixmap |-> p, prefs |-> prefs]
       ELSE CASE request.kind = "Size" ->
                    res(Some([kind |-> "Size", width |-> p.width, height |-> p.height]), p, prefs)
              [] request.kind = "Help" ->
                    res(Some([kind |-> "Help", topic |-> request.topic]), p, prefs)
              [] request.kind = "PxGet" ->
                    res(Some([kind |-> "Px", x |-> request.x, y |-> request.y,
                              color |-> ActorGetPixel(p, request.x, request.y)]), p, prefs)
              [] request.kind = "PxSet" ->
                    res(Some([kind |-> "Px", x |-> request.x, y |-> request.y,
                              color |-> request.color]),
                        ActorSetPixel(p, request.x, request.y, request.color), prefs)
              [] request.kind = "State" ->
                    res(Some([kind |-> "State", algorithm |-> request.algorithm]), p, prefs)
              [] request.kind = "Subscribe" ->
                    res(None, p, [prefs EXCEPT !.subscribed = TRUE])
              [] request.kind = "Unsubscribe" ->
                    res(None, p, [prefs EXCEPT !.subscribed = FALSE])

\* handle_request: Err when a collaborator fails (collab_ok is false), else the
\* optional response, the pixmap and the preferences it leaves.
HandleRequest(request, p, prefs, collab_ok) ==
    LET res(response, p2, prefs2) ==
            [ok |-> TRUE, response |-> response, pixmap |-> p2, prefs |-> prefs2]
    IN IF ~collab_ok
       THEN [ok |-> FALSE, error |-> "internal error", pixmap |-> p, prefs |-> prefs]
       ELSE CASE request.kind = "Size" ->
                    res(Some([kind |-> "Size", width |-> p.width, height |-> p.height]), p, prefs)
              [] request.kind = "Help" ->
                    res(Some([kind |-> "Help", topic |-> request.topic]), p, prefs)
              [] request.kind = "PxGet" ->
                    res(Some([kind |-> "Px", x |-> request.x, y |-> request.y,
                              color |-> ActorGetPixel(p, request.x, request.y)]), p, prefs)
              [] request.kind = "PxSet" ->
                    res(None, ActorSetPixel(p, request.x, request.y, request.color), prefs)
              [] request.kind = "State" ->
                    res(Some([kind |-> "State", algorithm |-> request.algorithm]), p, prefs)
              [] request.kind = "Subscribe" ->
                    res(None, p, [prefs EXCEPT !.subscribed = TRUE])
              [] request.kind = "Unsubscribe" ->
                    res(None, p, [prefs EXCEPT !.subscribed = FALSE])

\* handle_frame with every error swallowed: no response for a bad frame.
HandleFrame_DropErrors(frame, p, prefs, collab_ok) ==
    LET parsed == RequestTryFrom(frame)
    IN IF ~parsed.ok
       THEN [response |-> None, pixmap |-> p, prefs |-> prefs]
       ELSE LET r == HandleRequest(parsed.request, p, prefs, collab_ok)
            IN IF ~r.ok
               THEN [response |-> None, pixmap |-> r.pixmap, prefs |-> r.prefs]
               ELSE [response |-> IF r.response.some
                                  THEN Some(ResponseFrame(r.response.val)) ELSE None,
                     pixmap |-> r.pixmap, prefs |-> r.prefs]

\* handle_frame: the optional response frame, and the pixmap and preferences left.
HandleFrame(frame, p, prefs, collab_ok) ==
    LET parsed == RequestTryFrom(frame)
    IN IF ~parsed.ok
       THEN [response |-> Some(ErrorFrame(parsed.error)), pixmap |-> p, prefs |-> prefs]
       ELSE LET r == HandleRequest(parsed.request, p, prefs, collab_ok)
            IN IF ~r.ok
               THEN [response |-> Some(ErrorFrame(r.error)),
                     pixmap |-> r.pixmap, prefs |-> r.prefs]
               ELSE [response |-> IF r.response.some
                                  THEN Some(ResponseFrame(r.response.val)) ELSE None,
                     pixmap |-> r.pixmap, prefs |-> r.prefs]

\* -------------------------------------------------------- stream connection
\* What the peer of the modelled connection sends, token by token.
PeerTokens == {"SIZE", "FOOBAR", "SUBSCRIBE", NL}

\* TcpConnection::new, and process_connection before its first read_frame.
NewConnection ==
    [pc |-> "read", buffer |-> <<>>, wbuf |-> <<>>, frame |-> None, response |-> None,
     prefs |-> DefaultPreferences]

\* How process_connection has ended: the peer closed cleanly (Ok(None)), the
\* peer closed in the middle of a message (ConnectionReset), an I/O error.
Closed == "closed"
Reset == "reset"
IoError == "io_error"
Ended == {Closed, Reset, IoError}

\* parse_frame that forgets to advance the buffer.
ParseFrame_NoAdvance(buf) ==
    LET c == FrameCheck(buf)
    IN IF ~c.ok THEN [frame |-> None, buffer |-> buf]
       ELSE [frame |-> Some(FrameParse(buf)), buffer |-> buf]

\* TcpConnection::parse_frame: the frame, if the buffer holds a whole one, and
\* the buffer left.
ParseFrame(buf) ==
    LET c == FrameCheck(buf)
    IN IF ~c.ok THEN [frame |-> None, buffer |-> buf]
       ELSE [frame |-> Some(FrameParse(buf)),
             buffer |-> SubSeq(buf, c.position + 1, Len(buf))]

\* read_frame at end of input that always reports a clean shutdown.
ReadFrameAtEof_AlwaysClean(buf) == Closed

\* read_frame when read_buf returns 0.
ReadFrameAtEof(buf) == IF buf = <<>> THEN Closed ELSE Reset

\* The peer writes one more token to the socket.
PeerSend(b) ==
    /\ conn.pc # "none"
    /\ ~peer_closed
    /\ Len(rcvd) + Len(wire) < MaxSent
    /\ wire' = Append(wire, b)
    /\ UNCHANGED <<peer_closed, conn, out, rcvd, dispatched, pixmap, callerVars, srvVars, udpVars, legVars>>

\* The peer closes the connection (it may do so in the middle of a message).
PeerClose ==
    /\ conn.pc # "none"
    /\ ~peer_closed
    /\ peer_closed' = TRUE
    /\ UNCHANGED <<wire, conn, out, rcvd, dispatched, pixmap, callerVars, srvVars, udpVars, legVars>>

\* read_frame: read_buf delivers the next n bytes (n > 0), then parse_frame;
\* with a frame read_frame returns it, without one it reads again.
ReadBuf(n) ==
    /\ conn.pc = "read"
    /\ n \in 1..Len(wire)
    /\ LET parsed == ParseFrame(conn.buffer \o SubSeq(wire, 1, n))
       IN conn' = [conn EXCEPT !.buffer = parsed.buffer,
                               !.frame = parsed.frame,
                               !.pc = IF parsed.frame.some THEN "handle" ELSE "read"]
    /\ rcvd' = rcvd \o SubSeq(wire, 1, n)
    /\ wire' = SubSeq(wire, n + 1, Len(wire))
    /\ UNCHANGED <<peer_closed, out, dispatched, pixmap, callerVars, srvVars, udpVars, legVars>>

\* read_frame: read_buf returns 0 (end of stream).
ReadEof ==
    /\ conn.pc = "read"
    /\ wire = <<>>
    /\ peer_closed
    /\ conn' = [conn EXCEPT !.pc = ReadFrameAtEof(conn.buffer)]
    /\ UNCHANGED <<wire, peer_closed, out, rcvd, dispatched, pixmap, callerVars, srvVars, udpVars, legVars>>

\* read_frame: read_buf fails (the ? returns the error).
ReadError ==
    /\ conn.pc = "read"
    /\ conn' = [conn EXCEPT !.pc = IoError]
    /\ UNCHANGED <<wire, peer_closed, out, rcvd, dispatched, pixmap, callerVars, srvVars, udpVars, legVars>>

\* process_connection: handle_frame(frame), then on to the write or the next read.
Dispatch(collab_ok) ==
    /\ conn.pc = "handle"
    /\ LET r == HandleFrame(conn.frame.val, pixmap, conn.prefs, collab_ok)
       IN /\ conn' = [conn EXCEPT !.frame = None,
                                  !.response = r.response,
                                  !.prefs = r.prefs,
                                  !.pc = IF r.response.some THEN "write" ELSE "read"]
          /\ pixmap' = r.pixmap
          /\ dispatched' = Append(dispatched, [frame |-> conn.frame.val,
                                               response |-> r.response,
                                               collab_ok |-> collab_ok])
    /\ UNCHANGED <<wire, peer_closed, out, rcvd, callerVars, srvVars, udpVars, legVars>>

\* write_frame: write_all(&frame.encode()) into the BufWriter.
WriteAll ==
    /\ conn.pc = "write"
    /\ conn' = [conn EXCEPT !.wbuf = conn.wbuf \o FrameEncode(conn.response.val),
                            !.response = None,
                            !.pc = "flush"]
    /\ UNCHANGED <<wire, peer_closed, out, rcvd, dispatched, pixmap, callerVars, srvVars, udpVars, legVars>>

\* A flush that leaves the bytes in the BufWriter.
FlushTo_Lazy(socket, wbuf) == [socket |-> socket, wbuf |-> wbuf]

\* BufWriter::flush: everything buffered goes out to the socket.
FlushTo(socket, wbuf) == [socket |-> socket \o wbuf, wbuf |-> <<>>]

\* write_frame: stream.flush(), then process_connection loops to read_frame.
Flush ==
    /\ conn.pc = "flush"
    /\ LET f == FlushTo(out, conn.wbuf)
       IN /\ out' = f.socket
          /\ conn' = [conn EXCEPT !.wbuf = f.wbuf, !.pc = "read"]
    /\ UNCHANGED <<wire, peer_closed, rcvd, dispatched, pixmap, callerVars, srvVars, udpVars, legVars>>

\* write_frame: write_all or flush fails; process_connection returns.
WriteError ==
    /\ conn.pc \in {"write", "flush"}
    /\ conn' = [conn EXCEPT !.pc = IoError]
    /\ UNCHANGED <<wire, peer_closed, out, rcvd, dispatched, pixmap, callerVars, srvVars, udpVars, legVars>>

\* The pixmap the server shares with its connections (Pixmap::default(),
\* within the bounds of the model).
ServerPixmap == PixmapNew(MaxWidth, MaxHeight, 1)

\* One accepted connection on the server's pixmap.
InitTcp ==
    /\ args = [width |-> MaxWidth, height |-> MaxHeight, num_shards |-> 1]
    /\ pixmap = ServerPixmap
    /\ mutex = FreshMutex(pixmap)
    /\ poisoned = FreshPoisoned(pixmap)
    /\ thr = [t \in Threads |-> Idle(NoRet)]
    /\ lastSet = FreshLastSet(pixmap)
    /\ wire = <<>>
    /\ peer_closed = FALSE
    /\ conn = NewConnection
    /\ out = <<>>
    /\ rcvd = <<>>
    /\ dispatched = <<>>
    /\ NoServer

NextTcp ==
    \/ \E b \in PeerTokens : PeerSend(b)
    \/ PeerClose
    \/ \E n \in 1..MaxSent : ReadBuf(n)
    \/ ReadEof
    \/ ReadError
    \/ \E collab_ok \in BOOLEAN : Dispatch(collab_ok)
    \/ WriteAll
    \/ Flush
    \/ WriteError

SpecTcp == InitTcp /\ [][NextTcp]_vars

\* ------------------------------------------------- listener and connections
\* Pixmap::default()
DefaultPixmap == PixmapNew(800, 600, 10)

\* The frames read_frame hands to process_connection: every request of the
\* grammar with coordinates inside and outside the canvas, and a line that
\* is no request.
Frames ==
    {<<"SIZE">>, <<"HELP">>, <<"HELP", "PX">>, <<"STATE", "rgb64">>, <<"STATE", "rgba64">>,
     <<"SUBSCRIBE">>, <<"UNSUBSCRIBE">>, <<"FOOBAR">>}
    \cup {<<"PX", xy[1], xy[2]>> : xy \in ReqCoords}
    \cup {<<"PX", xy[1], xy[2], c>> : xy \in ReqCoords, c \in ColorTokens}

\* A connection slot: not accepted yet, the process_connection task with the
\* connection's preferences, or the task returned (how is in pc), its
\* connection and preferences dropped.
NotAccepted == [pc |-> "none", prefs |-> DefaultPreferences]
Open == "open"
Returned(how) == [pc |-> how, prefs |-> DefaultPreferences]

\* start: listener.accept() returns a socket, and process_connection is
\* spawned on a new TcpConnection.
Accept(c) ==
    /\ listener = "accept"
    /\ c \in DOMAIN conns
    /\ conns[c].pc = "none"
    /\ \A c2 \in DOMAIN conns : c2 < c => conns[c2].pc # "none"
    /\ conns' = [conns EXCEPT ![c] = [pc |-> Open, prefs |-> DefaultPreferences]]
    /\ UNCHANGED <<listener, last, pixmap, callerVars, connVars, udpVars, legVars>>

\* start: listener.accept() fails and the unwrap panics; the loop is over.
AcceptError ==
    /\ listener = "accept"
    /\ listener' = "panicked"
    /\ UNCHANGED <<conns, last, pixmap, callerVars, connVars, udpVars, legVars>>

\* process_connection, one turn of its loop: read_frame returns a frame,
\* handle_frame answers it, and the response, if there is one, is written;
\* a failed write ends the task.
Serve(c, frame, collab_ok, write_ok) ==
    /\ c \in DOMAIN conns
    /\ conns[c].pc = Open
    /\ \E r \in {HandleFrame(frame, pixmap, conns[c].prefs, collab_ok)} :
          /\ write_ok \/ r.response.some
          /\ pixmap' = r.pixmap
          /\ conns' = [conns EXCEPT ![c] = IF write_ok
                                            THEN [pc |-> Open, prefs |-> r.prefs]
                                            ELSE Returned(IoError)]
          /\ last' = [kind |-> "served", tick |-> (IF last.kind = "served"
                                                   THEN 1 - last.tick ELSE 0),
                      conn |-> c, frame |-> frame, collab_ok |-> collab_ok,
                      response |-> r.response, written |-> write_ok /\ r.response.some]
    /\ UNCHANGED <<listener, callerVars, connVars, udpVars, legVars>>

\* process_connection: read_frame returns Ok(None); the task returns.
ConnEof(c) ==
    /\ c \in DOMAIN conns
    /\ conns[c].pc = Open
    /\ conns' = [conns EXCEPT ![c] = Returned(Closed)]
    /\ UNCHANGED <<listener, last, pixmap, callerVars, connVars, udpVars, legVars>>

\* process_connection: read_frame returns an error; the task returns.
ConnReadError(c) ==
    /\ c \in DOMAIN conns
    /\ conns[c].pc = Open
    /\ conns' = [conns EXCEPT ![c] = Returned(IoError)]
    /\ UNCHANGED <<listener, last, pixmap, callerVars, connVars, udpVars, legVars>>

\* The listener bound, on the server's pixmap, no connection accepted yet.
InitSrv ==
    /\ args = [width |-> MaxWidth, height |-> MaxHeight, num_shards |-> 1]
    /\ pixmap = ServerPixmap
    /\ mutex = FreshMutex(pixmap)
    /\ poisoned = FreshPoisoned(pixmap)
    /\ thr = [t \in Threads |-> Idle(NoRet)]
    /\ lastSet = FreshLastSet(pixmap)
    /\ NoConnection
    /\ listener = "accept"
    /\ conns = [c \in 1..MaxConns |-> NotAccepted]
    /\ last = [kind |-> "none"]
    /\ udp = "none"
    /\ inflight = {}
    /\ tasks = <<>>
    /\ sent = <<>>
    /\ NoLegacy

NextSrv ==
    \/ \E c \in 1..MaxConns : Accept(c)
    \/ AcceptError
    \/ \E c \in 1..MaxConns : \E frame \in Frames : \E collab_ok \in BOOLEAN :
            \E write_ok \in BOOLEAN : Serve(c, frame, collab_ok, write_ok)
    \/ \E c \in 1..MaxConns : ConnEof(c)
    \/ \E c \in 1..MaxConns : ConnReadError(c)

SpecSrv == InitSrv /\ [][NextSrv]_vars

\* ---------------------------------------------------------- datagram server
\* The addresses datagrams come from, and what the peers put into a
\* datagram: a whole request with and without a response, an unrecognized
\* command, a request that lacks an argument, and a request cut off before
\* its delimiter.
Origins == {"peer_a", "peer_b"}
Datagrams ==
    {<<"SIZE", NL>>, <<"PX", "0", "0", "2A2B2C", NL>>, <<"FOOBAR", NL>>,
     <<"PX", "0", NL>>, <<"SIZE">>}

\* BytesMut::with_capacity(capacity): room for capacity bytes, and a length
\* of zero.
Capacity == 1024
BytesMutWithCapacity(capacity) == [len |-> 0, capacity |-> capacity]

\* recv_from that hands over the whole datagram whatever the slice's length.
RecvFrom_WholeDatagram(datagram, slice_len) == datagram

\* UdpSocket::recv_from(&mut buffer[..]): the bytes of the datagram that fit
\* into the slice it is given; the rest of the datagram is discarded.
RecvFrom(datagram, slice_len) ==
    SubSeq(datagram, 1, IF Len(datagram) < slice_len THEN Len(datagram) ELSE slice_len)

\* A peer sends a datagram to the server's socket.
PeerSendDatagram(origin, payload) ==
    /\ udp # "none"
    /\ Len(tasks) + Cardinality(inflight) < MaxDatagrams
    /\ inflight' = inflight \cup {[id |-> Len(tasks) + Cardinality(inflight) + 1,
                                   origin |-> origin, payload |-> payload]}
    /\ UNCHANGED <<udp, tasks, sent, pixmap, callerVars, connVars, srvVars, legVars>>

\* start: one turn of the loop. A buffer is allocated, recv_from fills the
\* slice &mut buffer[..] (as long as the buffer's length), and process_received
\* is spawned with the buffer, the number of bytes read and the origin.
StartRecv(d) ==
    /\ udp = "recv"
    /\ d \in inflight
    /\ LET buffer == BytesMutWithCapacity(Capacity)
           bytes == RecvFrom(d.payload, buffer.len)
       IN tasks' = Append(tasks, [pc |-> "spawned", buffer |-> bytes,
                                  num_read |-> Len(bytes), origin |-> d.origin,
                                  datagram |-> d.payload, frame |-> None])
    /\ inflight' = inflight \ {d}
    /\ UNCHANGED <<udp, sent, pixmap, callerVars, connVars, srvVars, legVars>>

\* start: recv_from fails and the unwrap panics; the loop is over.
StartRecvError ==
    /\ udp = "recv"
    /\ udp' = "panicked"
    /\ UNCHANGED <<inflight, tasks, sent, pixmap, callerVars, connVars, srvVars, legVars>>

\* process_received, of the task spawned i-th: check the bytes read; without
\* a whole message return, else parse, handle_frame, and send the response,
\* if there is one, to the origin (a failed send is logged).
ProcessReceived(i, collab_ok, send_ok) ==
    /\ i \in DOMAIN tasks
    /\ tasks[i].pc = "spawned"
    /\ LET buffer == SubSeq(tasks[i].buffer, 1, tasks[i].num_read)
       IN IF ~FrameCheck(buffer).ok
          THEN /\ tasks' = [tasks EXCEPT ![i].pc = "done"]
               /\ UNCHANGED <<sent, pixmap>>
          ELSE LET frame == FrameParse(buffer)
                   r == HandleFrame(frame, pixmap, DefaultPreferences, collab_ok)
               IN /\ tasks' = [tasks EXCEPT ![i].pc = "done", ![i].frame = Some(frame)]
                  /\ pixmap' = r.pixmap
                  /\ sent' = IF r.response.some
                             THEN Append(sent, [to |-> tasks[i].origin,
                                                bytes |-> FrameEncode(r.response.val),
                                                ok |-> send_ok, task |-> i])
                             ELSE sent
    /\ UNCHANGED <<udp, inflight, callerVars, connVars, srvVars, legVars>>

\* The datagram server on the server's pixmap, its socket bound.
InitUdp ==
    /\ args = [width |-> MaxWidth, height |-> MaxHeight, num_shards |-> 1]
    /\ pixmap = ServerPixmap
    /\ mutex = FreshMutex(pixmap)
    /\ poisoned = FreshPoisoned(pixmap)
    /\ thr = [t \in Threads |-> Idle(NoRet)]
    /\ lastSet = FreshLastSet(pixmap)
    /\ NoConnection
    /\ listener = "none"
    /\ conns = <<>>
    /\ last = [kind |-> "none"]
    /\ udp = "recv"
    /\ inflight = {}
    /\ tasks = <<>>
    /\ sent = <<>>
    /\ NoLegacy

NextUdp ==
    \/ \E origin \in Origins : \E payload \in Datagrams : PeerSendDatagram(origin, payload)
    \/ \E d \in inflight : StartRecv(d)
    \/ StartRecvError
    \/ \E i \in 1..MaxDatagrams : \E collab_ok \in BOOLEAN : \E send_ok \in BOOLEAN :
            ProcessReceived(i, collab_ok, send_ok)

SpecUdp == InitUdp /\ [][NextUdp]_vars

\* ------------------------------------------------ legacy thread-based server
\* The legacy stream is a sequence of chunks of bytes: a word, the message
\* delimiter, or bytes that are no UTF-8.
Semi == ";"
NotUtf8 == "<ff>"

\* What a client writes at once: a SIZE, a PX, a line that is no command,
\* a line that is no UTF-8, and the beginning of a SIZE without delimiter.
LegacyChunks ==
    {<<"SIZE", Semi>>, <<"PX 0 0 ff", Semi>>, <<"FOO", Semi>>, <<NotUtf8, Semi>>,
     <<"SIZE">>}
LegacyClients == 1..MaxLegacyClients

\* The position of the first delimiter of buf (0: there is none).
FirstSemi(buf) ==
    IF \E k \in 1..Len(buf) : buf[k] = Semi
    THEN CHOOSE k \in 1..Len(buf) : buf[k] = Semi /\ \A j \in 1..(k - 1) : buf[j] # Semi
    ELSE 0

\* reader.read_until(b';', &mut buf) on a stream that holds a delimiter or is
\* at its end: the bytes up to and including the delimiter, or all that is
\* left.
ReadUntil(stream) ==
    IF FirstSemi(stream) = 0 THEN [buf |-> stream, rest |-> <<>>]
    ELSE [buf |-> SubSeq(stream, 1, FirstSemi(stream)),
          rest |-> SubSeq(stream, FirstSemi(stream) + 1, Len(stream))]

\* String::from_utf8(buf)
FromUtf8(buf) ==
    IF \E k \in 1..Len(buf) : buf[k] = NotUtf8 THEN [ok |-> FALSE]
    ELSE [ok |-> TRUE, msg |-> buf]

\* command_handler::parse_message(msg)
ParseMessage(msg) ==
    IF msg = <<"SIZE", Semi>> THEN [ok |-> TRUE, cmd |-> [kind |-> "SIZE"]]
    ELSE IF msg = <<"PX 0 0 ff", Semi>>
         THEN [ok |-> TRUE, cmd |-> [kind |-> "PX", x |-> 0, y |-> 0, color |-> "ff"]]
    ELSE [ok |-> FALSE]

\* The match on cmd: command_handler::cmd_size() and cmd_px(&map, x, y, color).
Execute(cmd, map) ==
    IF cmd.kind = "PX" THEN [map EXCEPT ![<<cmd.x, cmd.y>>] = cmd.color] ELSE map

\* Two input-handler threads on the one channel.
InputHandlers_Two == {1, 2}

\* start: start_input_handler is called once.
InputHandlers == {1}

\* The receiving end of the channel exists as long as an input handler runs.
ReceiverAlive == \E h \in DOMAIN lhandler : lhandler[h].pc # "panicked"

\* input_rx.recv() on a channel that holds a message: the one sent first.
ChanRecv(chan) == [val |-> Head(chan), rest |-> Tail(chan)]

\* loop_server: accept returns a stream; handle_client spawns the client's
\* thread with a clone of tx.
LegacyAccept(c) ==
    /\ c \in DOMAIN lclients
    /\ lclients[c].pc = "none"
    /\ \A c2 \in DOMAIN lclients : c2 < c => lclients[c2].pc # "none"
    /\ lclients' = [lclients EXCEPT ![c].pc = "open"]
    /\ UNCHANGED <<lchan, lhandler, lmap, lhist, pixmap, callerVars, connVars, srvVars, udpVars>>

\* The chunks the clients 1..n have written.
RECURSIVE ChunksWritten(_)
ChunksWritten(n) ==
    IF n = 0 THEN 0 ELSE Len(lclients[n].written) + ChunksWritten(n - 1)

\* A client writes a chunk to its stream.
LegacyClientWrite(c, chunk) ==
    /\ c \in DOMAIN lclients
    /\ lclients[c].pc = "open"
    /\ ~lclients[c].closed
    /\ ChunksWritten(MaxLegacyClients) < MaxLegacySent
    /\ lclients' = [lclients EXCEPT ![c].stream = @ \o chunk,
                                    ![c].sent = @ \o chunk,
                                    ![c].written = Append(@, chunk)]
    /\ UNCHANGED <<lchan, lhandler, lmap, lhist, pixmap, callerVars, connVars, srvVars, udpVars>>

\* A client closes its stream.
LegacyClientClose(c) ==
    /\ c \in DOMAIN lclients
    /\ lclients[c].pc = "open"
    /\ ~lclients[c].closed
    /\ lclients' = [lclients EXCEPT ![c].closed = TRUE]
    /\ UNCHANGED <<lchan, lhandler, lmap, lhist, pixmap, callerVars, connVars, srvVars, udpVars>>

\* handle_client, one turn of the thread's loop: receive_msg returns the
\* bytes up to the delimiter (or what is left at the end of the stream) and
\* tx.send hands them to the input handler; with 0 bytes read receive_msg
\* returns Err and the thread ends; with the receiver gone the expect panics.
HandleClient(c) ==
    /\ c \in DOMAIN lclients
    /\ lclients[c].pc = "open"
    /\ FirstSemi(lclients[c].stream) # 0 \/ lclients[c].closed
    /\ LET r == ReadUntil(lclients[c].stream)
       IN IF Len(r.buf) = 0
          THEN /\ lclients' = [lclients EXCEPT ![c].pc = "ended"]
               /\ UNCHANGED lchan
          ELSE IF ReceiverAlive
          THEN /\ lclients' = [lclients EXCEPT ![c].stream = r.rest]
               /\ lchan' = Append(lchan, [client |-> c, buf |-> r.buf])
          ELSE /\ lclients' = [lclients EXCEPT ![c].stream = r.rest, ![c].pc = "panicked"]
               /\ UNCHANGED lchan
    /\ UNCHANGED <<lhandler, lmap, lhist, pixmap, callerVars, connVars, srvVars, udpVars>>

\* handle_client: read_until fails; receive_msg returns Err and the thread ends.
HandleClientError(c) ==
    /\ c \in DOMAIN lclients
    /\ lclients[c].pc = "open"
    /\ lclients' = [lclients EXCEPT ![c].pc = "ended"]
    /\ UNCHANGED <<lchan, lhandler, lmap, lhist, pixmap, callerVars, connVars, srvVars, udpVars>>

\* start_input_handler, first half of a turn of the loop: recv, from_utf8
\* and parse_message; a buffer that does not decode or parse is dropped.
InputTake(h) ==
    /\ h \in DOMAIN lhandler
    /\ lhandler[h].pc = "recv"
    /\ lchan # <<>>
    /\ LET r == ChanRecv(lchan)
           decoded == FromUtf8(r.val.buf)
           parsed == IF decoded.ok THEN ParseMessage(decoded.msg) ELSE [ok |-> FALSE]
       IN /\ lchan' = r.rest
          /\ lhandler' = [lhandler EXCEPT ![h] =
                IF parsed.ok
                THEN [pc |-> "exec", cmd |-> Some(parsed.cmd), msg |-> Some(r.val)]
                ELSE [pc |-> "recv", cmd |-> None, msg |-> None]]
          /\ lhist' = [lhist EXCEPT !.taken = Append(@, r.val)]
    /\ UNCHANGED <<lclients, lmap, pixmap, callerVars, connVars, srvVars, udpVars>>

\* start_input_handler, second half: the command is executed and the message
\* is sent to forward_tx; if the send fails the expect panics.
InputExecute(h, forward_ok) ==
    /\ h \in DOMAIN lhandler
    /\ lhandler[h].pc = "exec"
    /\ lmap' = Execute(lhandler[h].cmd.val, lmap)
    /\ lhist' = [lhist EXCEPT !.executed = Append(@, lhandler[h].msg.val),
                              !.forwarded = Append(@, [msg |-> lhandler[h].msg.val.buf,
                                                       ok |-> forward_ok])]
    /\ lhandler' = [lhandler EXCEPT ![h] = [pc |-> IF forward_ok THEN "recv" ELSE "panicked",
                                            cmd |-> None, msg |-> None]]
    /\ UNCHANGED <<lclients, lchan, pixmap, callerVars, connVars, srvVars, udpVars>>

\* start: the channel is created, the input handler is started, and the
\* server loops over accept.
InitLegacy ==
    /\ args = [width |-> MaxWidth, height |-> MaxHeight, num_shards |-> 1]
    /\ pixmap = ServerPixmap
    /\ mutex = FreshMutex(pixmap)
    /\ poisoned = FreshPoisoned(pixmap)
    /\ thr = [t \in Threads |-> Idle(NoRet)]
    /\ lastSet = FreshLastSet(pixmap)
    /\ NoConnection
    /\ listener = "none"
    /\ conns = <<>>
    /\ last = [kind |-> "none"]
    /\ udp = "none"
    /\ inflight = {}
    /\ tasks = <<>>
    /\ sent = <<>>
    /\ lclients = [c \in LegacyClients |->
                        [pc |-> "none", stream |-> <<>>, closed |-> FALSE,
                         sent |-> <<>>, written |-> <<>>]]
    /\ lchan = <<>>
    /\ lhandler = [h \in InputHandlers |-> [pc |-> "recv", cmd |-> None, msg |-> None]]
    /\ lmap = [xy \in {<<0, 0>>} |-> "00"]
    /\ lhist = [taken |-> <<>>, executed |-> <<>>, forwarded |-> <<>>]

NextLegacy ==
    \/ \E c \in LegacyClients : LegacyAccept(c)
    \/ \E c \in LegacyClients : \E chunk \in LegacyChunks : LegacyClientWrite(c, chunk)
    \/ \E c \in LegacyClients : LegacyClientClose(c)
    \/ \E c \in LegacyClients : HandleClient(c)
    \/ \E c \in LegacyClients : HandleClientError(c)
    \/ \E h \in InputHandlers : InputTake(h)
    \/ \E h \in InputHandlers : \E forward_ok \in BOOLEAN : InputExecute(h, forward_ok)

SpecLegacy == InitLegacy /\ [][NextLegacy]_vars

\* ------------------------------------------------------------------- claims
InRange(t) == AreCoordinatesInside(pixmap, thr[t].x, thr[t].y)
Called(t) == thr[t].pc \in {"get", "set"}
Locked(t) == thr[t].pc \in {"get_locked", "set_locked"}
HeldBy(t) == {s \in DOMAIN mutex : mutex[s] = t}
\* The coordinates whose pixel lives in shard s.
ShardCoords(s) == {c \in Coords(pixmap) : (c[2] * pixmap.width + c[1]) \div
                        ((pixmap.width * pixmap.height) \div NumShards(pixmap)) = s}
Stored(c) == LET idx == GetPixelIndex(pixmap, c[1], c[2]) IN pixmap.data[idx[1]][idx[2]]

\* C1: a get_pixel of an in-range coordinate returns the color of the most
\* recent set_pixel of that coordinate that returned true, or (0,0,0) if there
\* was none; a set_pixel of another coordinate does not change it.
C1_GetReturnsLastSet ==
    [][\A t \in Threads :
          (thr[t].pc = "get_locked" /\ thr'[t].pc # "get_locked")
              => thr'[t].ret = RetSome(lastSet[<<thr[t].x, thr[t].y>>])]_vars

\* A get_pixel returned a color written by an earlier set_pixel while another
\* coordinate holds a different color.
C1_Witness ==
    \E t \in Threads : \E c \in DOMAIN lastSet :
        /\ thr[t].ret = RetSome(Color(42, 43, 44))
        /\ lastSet[c] = ColorFromU32(197121)

\* C2: with x >= width or y >= height, get_pixel returns None and set_pixel
\* returns false, without a panic, without taking a lock and without changing
\* any pixel.
C2_OutOfRange ==
    [][\A t \in Threads :
          (Called(t) /\ ~(thr[t].x < pixmap.width /\ thr[t].y < pixmap.height)
                /\ thr'[t] # thr[t])
              => /\ thr'[t] = Idle(IF thr[t].pc = "get" THEN RetNone ELSE RetBool(FALSE))
                 /\ mutex' = mutex
                 /\ pixmap' = pixmap]_vars

\* An out-of-range set_pixel returned false on a canvas that holds a color.
C2_Witness ==
    \E t \in Threads : \E c \in DOMAIN lastSet :
        /\ thr[t].ret = RetBool(FALSE)
        /\ Stored(c) = Color(42, 43, 44)

\* C3: get_pixel_index is a bijection from the coordinates onto the shard
\* slots, and equals (global / shard_size, global % shard_size).
C3_IndexBijection ==
    pixmap.tag = "Ok" =>
        LET shard_size == (args.width * args.height) \div args.num_shards
            slots == {<<s, k>> : s \in 0..(args.num_shards - 1), k \in 0..(shard_size - 1)}
            idx(c) == GetPixelIndex(pixmap, c[1], c[2])
        IN /\ \A c \in Coords(pixmap) :
                /\ idx(c) \in slots
                /\ idx(c)[1] \in DOMAIN pixmap.data
                /\ idx(c)[2] \in DOMAIN pixmap.data[idx(c)[1]]
                /\ idx(c) = <<(c[2] * args.width + c[1]) \div shard_size,
                              (c[2] * args.width + c[1]) % shard_size>>
           /\ \A c, d \in Coords(pixmap) : idx(c) = idx(d) => c = d
           /\ \A sl \in slots : \E c \in Coords(pixmap) : idx(c) = sl

\* A canvas of several rows split into several shards.
C3_Witness ==
    /\ pixmap.tag = "Ok"
    /\ args.width = 3 /\ args.height = 4 /\ args.num_shards = 6

C5_NoTornColor ==
    /\ \A t \in Threads :
          thr[t].ret.kind = "Some" => thr[t].ret.color \in InputColors \cup {<<0, 0, 0>>}
    /\ (\A t \in Threads : thr[t].pc # "set_locked")
          => \A c \in Coords(pixmap) : Stored(c) = lastSet[c]

\* A writer has stored part of its color over another writer's color while a
\* reader of the same pixel waits for the lock.
C5_Witness ==
    \E t, u \in Threads :
        /\ thr[t].pc = "set_locked" /\ thr[t].chan = 1
        /\ thr[u].pc = "get" /\ thr[u].x = thr[t].x /\ thr[u].y = thr[t].y
        /\ lastSet[<<thr[t].x, thr[t].y>>] \in InputColors \ {thr[t].color}

\* C6 as stated: a thread holds at most one shard lock, the one of the shard
\* get_pixel_index gives for its coordinate, none outside the critical
\* section, and never a lock that covers the whole canvas.
C6_OneShardLock_Original ==
    \A t \in Threads :
        /\ Cardinality(HeldBy(t)) <= 1
        /\ HeldBy(t) # {} =>
              /\ Locked(t)
              /\ HeldBy(t) = {GetPixelIndex(pixmap, thr[t].x, thr[t].y)[1]}
        /\ ~Locked(t) => HeldBy(t) = {}
        /\ \A s \in HeldBy(t) : ShardCoords(s) # Coords(pixmap)

\* C6 amended: as stated, except that the one shard of a pixmap built with
\* num_shards = 1 covers the whole canvas: a held lock covers the whole canvas
\* only then.
C6_OneShardLock ==
    \A t \in Threads :
        /\ Cardinality(HeldBy(t)) <= 1
        /\ HeldBy(t) # {} =>
              /\ Locked(t)
              /\ HeldBy(t) = {GetPixelIndex(pixmap, thr[t].x, thr[t].y)[1]}
        /\ ~Locked(t) => HeldBy(t) = {}
        /\ \A s \in HeldBy(t) : (ShardCoords(s) = Coords(pixmap)) <=> (NumShards(pixmap) = 1)

\* Two threads inside the critical sections of two different shards.
C6_Witness ==
    \E t, u \in Threads :
        /\ thr[t].pc = "set_locked" /\ thr[u].pc = "get_locked"
        /\ HeldBy(t) # {} /\ HeldBy(u) # {} /\ HeldBy(t) # HeldBy(u)

RECURSIVE Lines(_)
Lines(bs) ==
    IF FirstNL(bs) = 0 THEN <<>>
    ELSE <<SubSeq(bs, 1, FirstNL(bs) - 1)>> \o Lines(SubSeq(bs, FirstNL(bs) + 1, Len(bs)))

\* The bytes of the responses of a sequence of dispatches, in order.
RECURSIVE ResponseBytes(_)
ResponseBytes(ds) ==
    IF ds = <<>> THEN <<>>
    ELSE (IF Head(ds).response.some THEN Append(Head(ds).response.val, NL) ELSE <<>>)
            \o ResponseBytes(Tail(ds))

\* C8: within one stream connection the complete messages are dispatched in the
\* order their bytes were received, and the response to a message is written
\* and flushed before the next message is taken from the buffer or dispatched:
\* the socket holds the responses of the dispatched requests, in order.
C8_InOrder ==
    conn.pc # "none" =>
        /\ Len(dispatched) <= Len(Lines(rcvd))
        /\ \A k \in 1..Len(dispatched) : dispatched[k].frame = Lines(rcvd)[k]
        /\ conn.pc = "handle" =>
              /\ Len(dispatched) < Len(Lines(rcvd))
              /\ conn.frame = Some(Lines(rcvd)[Len(dispatched) + 1])
        /\ conn.pc \in {"read", "handle", Closed, Reset} =>
              /\ out = ResponseBytes(dispatched)
              /\ conn.wbuf = <<>>
        /\ conn.pc \in {"write", "flush"} =>
              /\ dispatched # <<>>
              /\ out = ResponseBytes(SubSeq(dispatched, 1, Len(dispatched) - 1))
        /\ conn.pc = IoError =>
              \/ out = ResponseBytes(dispatched)
              \/ /\ dispatched # <<>>
                 /\ out = ResponseBytes(SubSeq(dispatched, 1, Len(dispatched) - 1))

\* Two requests have been dispatched and answered in the order they arrived,
\* and the handler is back in read_frame.
C8_Witness ==
    /\ Len(dispatched) = 2
    /\ dispatched[1].frame = <<"FOOBAR">> /\ dispatched[2].frame = <<"SIZE">>
    /\ dispatched[2].collab_ok
    /\ conn.pc = "read"
    /\ Len(out) > 3

\* C9: at end of input read_frame ends the handler cleanly (Ok(None)) only if
\* the receive buffer is empty, and with ConnectionReset if it is not; either
\* way the handler has stopped and dispatches nothing afterwards.
C9_EndOfInput ==
    [][/\ (conn.pc = "read" /\ wire = <<>> /\ peer_closed /\ conn'.pc \notin {"read", IoError})
            => conn'.pc = (IF conn.buffer = <<>> THEN Closed ELSE Reset)
       /\ (conn.pc # Closed /\ conn'.pc = Closed)
            => (conn.pc = "read" /\ wire = <<>> /\ peer_closed /\ conn.buffer = <<>>)
       /\ (conn.pc # Reset /\ conn'.pc = Reset)
            => (conn.pc = "read" /\ wire = <<>> /\ peer_closed /\ conn.buffer # <<>>)
       /\ conn.pc \in Ended
            => (conn' = conn /\ dispatched' = dispatched /\ out' = out /\ pixmap' = pixmap)
      ]_vars

\* The peer closed in the middle of a message after a request was answered.
C9_Witness ==
    /\ conn.pc = Reset
    /\ conn.buffer = <<"SIZE">>
    /\ dispatched # <<>>

BadDatagram(payload) ==
    \/ ~FrameCheck(payload).ok
    \/ ~RequestTryFrom(FrameParse(payload)).ok

Served == last' # last
ServedRequest == RequestTryFrom(last'.frame)
PxGetFrame(xy) == <<"PX", ToString(xy[1]), ToString(xy[2])>>
PxFrame(xy, color) == <<"PX", ToString(xy[1]), ToString(xy[2]), ColorToken(color)>>
Answered(request_kinds) ==
    /\ ServedRequest.ok
    /\ ServedRequest.request.kind \in request_kinds
    /\ last'.collab_ok

C16_FailureIsLocal ==
    [][/\ \A c \in DOMAIN conns :
            (conns[c].pc = Open /\ conns'[c].pc \in Ended)
                => \A c2 \in DOMAIN conns : c2 # c => conns'[c2] = conns[c2]
       /\ \A c \in DOMAIN conns : conns[c].pc \in Ended => conns'[c] = conns[c]
       /\ listener = "accept" => listener' = "accept"]_vars


\* The bytes of the requests of a sequence of dispatches, in order.
RECURSIVE RequestBytes(_)
RequestBytes(ds) ==
    IF ds = <<>> THEN <<>> ELSE FrameEncode(Head(ds).frame) \o RequestBytes(Tail(ds))

\* C17: parse_frame, applied to the receive buffer after a read: when check
\* reports a complete message the buffer is advanced by exactly the bytes
\* check reported and the frame is the decoding of those leading bytes; when
\* check reports none the buffer is left as it is. No byte is dropped: the
\* bytes received are the messages dispatched, the frame in hand and the
\* buffer, so the bytes of later reads complete the message begun.
C17_ParseFrame ==
    [][/\ rcvd' # rcvd =>
            LET buf == conn.buffer \o SubSeq(rcvd', Len(rcvd) + 1, Len(rcvd'))
                c == FrameCheck(buf)
            IN /\ c.ok => /\ conn'.frame.some
                          /\ conn'.buffer = SubSeq(buf, c.position + 1, Len(buf))
                          /\ FrameEncode(conn'.frame.val) = SubSeq(buf, 1, c.position)
               /\ ~c.ok => /\ conn'.frame = None
                           /\ conn'.buffer = buf
       /\ rcvd' = RequestBytes(dispatched')
                    \o (IF conn'.frame.some THEN FrameEncode(conn'.frame.val) ELSE <<>>)
                    \o conn'.buffer]_vars

\* A message of two words has been dispatched; parse_frame has taken the
\* message after it (an empty line) from the buffer and has left the
\* beginning of a third message in the buffer.
C17_Witness ==
    /\ Len(dispatched) = 1
    /\ dispatched[1].frame = <<"SIZE", "FOOBAR">>
    /\ conn.pc = "handle"
    /\ conn.frame = Some(<<>>)
    /\ conn.buffer = <<"SIZE">>


\* A datagram that holds exactly one complete request of the grammar, and
\* the sends attempted by the task spawned i-th.
WellFormedDatagram(payload) ==
    /\ FrameCheck(payload).ok
    /\ FrameCheck(payload).position = Len(payload)
    /\ RequestTryFrom(FrameParse(payload)).ok
SendsOf(i) == {k \in DOMAIN sent : sent[k].task = i}

\* C18: in the datagram handler every received datagram that holds one
\* complete well-formed request is decoded from its own bytes and dispatched;
\* a request with a response (Size) leads to exactly one send, to the origin
\* of its datagram, a request without one to none, and a send, failed or
\* not, is attempted once.
C18_DatagramDispatched ==
    \A i \in DOMAIN tasks :
        (tasks[i].pc = "done" /\ WellFormedDatagram(tasks[i].datagram))
        => /\ tasks[i].frame = Some(FrameParse(tasks[i].datagram))
           /\ Cardinality(SendsOf(i)) <= 1
           /\ \A k \in SendsOf(i) : sent[k].to = tasks[i].origin
           /\ tasks[i].datagram = <<"SIZE", NL>> => Cardinality(SendsOf(i)) = 1


\* C19: handle_frame returns no frame or a frame for every frame it is given;
\* when a collaborator fails while a request is handled it returns the frame
\* of the error, and once that frame is written the connection is still
\* served, with the preferences it had before the request.
C19_FailureAnswered ==
    [][/\ Served => \/ last'.response = None
                    \/ last'.response.some /\ Len(last'.response.val) > 0
       /\ (Served /\ ServedRequest.ok /\ ~last'.collab_ok)
            => /\ last'.response = Some(ErrorFrame("internal error"))
               /\ last'.written => /\ conns'[last'.conn].pc = Open
                                   /\ conns'[last'.conn].prefs = conns[last'.conn].prefs]_vars

\* An Unsubscribe failed on a subscribed connection: the error frame was
\* written, the connection is open and still subscribed.
C19_Witness ==
    /\ last.kind = "served"
    /\ last.frame = <<"UNSUBSCRIBE">>
    /\ ~last.collab_ok
    /\ last.written
    /\ conns[last.conn].pc = Open
    /\ conns[last.conn].prefs.subscribed


\* C20: in the stream handler every complete message received is dispatched
\* without further input from the peer: when the handler waits for more
\* bytes (it is in read_frame and the socket has none) its buffer holds no
\* complete message; it ends with connection reset only over the beginning
\* of a message; and when it has ended cleanly every message received was
\* dispatched.
C20_ReceivedDispatched ==
    /\ (conn.pc = "read" /\ wire = <<>>) => FirstNL(conn.buffer) = 0
    /\ conn.pc = Reset => FirstNL(conn.buffer) = 0
    /\ conn.pc = Closed => Len(dispatched) = Len(Lines(rcvd))


\* The messages of a legacy stream: its bytes cut behind each delimiter, and
\* what is left behind the last one.
RECURSIVE LegacyMessages(_)
LegacyMessages(bs) ==
    IF bs = <<>> THEN <<>>
    ELSE <<ReadUntil(bs).buf>> \o LegacyMessages(ReadUntil(bs).rest)

\* A buffer that decodes as UTF-8 and parses as a command.
Parsable(buf) == FromUtf8(buf).ok /\ ParseMessage(FromUtf8(buf).msg).ok
IsPrefix(a, b) == Len(a) <= Len(b) /\ \A k \in 1..Len(a) : a[k] = b[k]
\* Of the messages ms, those of client c, and those that are commands.
OfClient(ms, c) == SelectSeq(ms, LAMBDA m : m.client = c)
Commands(ms) == SelectSeq(ms, LAMBDA m : Parsable(m.buf))
Executing(hs) == {h \in DOMAIN hs : hs[h].pc = "exec"}

=============================================================================
